---- MODULE Spec2Model ----
(***************************************************************************)
(* A model of myproject/watch_data/watch_data.py: the unit conversion and  *)
(* speed arithmetic (calculate_speed), time_difference, the streaming      *)
(* element filter (WatchData.filter_elements) with its predicates, and the *)
(* per-date aggregation of WatchData.plot_speed_by_run.                    *)
(*                                                                         *)
(* Python floats are modelled as exact rationals <<numerator, denominator>>*)
(* in lowest terms; a call's outcome is a record [kind, val] whose kind is *)
(* "value", "None" or the name of the exception raised.                    *)
(***************************************************************************)
EXTENDS Integers, Sequences, FiniteSets, TLC

VARIABLES
    pc,         \* position of the running call
    args,       \* arguments of the pure function under call
    ret,        \* outcome of the pure function under call
    doc,        \* the parsed document: elements in end-event order
    filt,       \* name of the predicate handed to filter_elements
    pos,        \* index of the next element the parser delivers
    attrib,     \* attrib[e]: current attributes of element e
    children,   \* children[e]: current child elements of element e
    cleared,    \* elements on which clear() has been called
    results,    \* filter_elements: the list being built
    verdict,    \* outcome of the latest predicate call
    idx,        \* plot_speed_by_run: index of the next run
    tracker,    \* plot_speed_by_run: date keys already recorded
    res_date,   \* plot_speed_by_run: results['date']
    res_speed,  \* plot_speed_by_run: results['speed']
    sink,       \* what the rendering sink received
    err         \* the exception that aborted the call, and where

vars == <<pc, args, ret, doc, filt, pos, attrib, children, cleared, results,
          verdict, idx, tracker, res_date, res_speed, sink, err>>

scanVars == <<doc, filt, pos, attrib, children, cleared, results, verdict>>
plotVars == <<idx, tracker, res_date, res_speed, sink>>

-----------------------------------------------------------------------------
(* Bounds of the model *)

\* largest numerator of a distance or time argument
MaxNum == 3
\* largest denominator of a distance or time argument
MaxDen == 2
\* largest number of elements in a document
MaxElems == 3

-----------------------------------------------------------------------------
(* Exact arithmetic standing for Python's float arithmetic *)
(* A number is <<n, d, a, b>>, the value (n / d) * 2^a * 5^b, in the one   *)
(* form with d > 0 and n, d prime to each other and to 10; 0 is <<0,1,0,0>>*)

Abs(n) == IF n < 0 THEN -n ELSE n

RECURSIVE GCD(_, _)
GCD(a, b) == IF b = 0 THEN a ELSE GCD(b, a % b)

RECURSIVE Norm(_, _, _, _)
Norm(n, d, a, b) ==
    LET g == GCD(Abs(n), d)
    IN  IF n = 0 THEN <<0, 1, 0, 0>>
        ELSE IF g > 1 THEN Norm(n \div g, d \div g, a, b)
        ELSE IF n % 2 = 0 THEN Norm(n \div 2, d, a + 1, b)
        ELSE IF n % 5 = 0 THEN Norm(n \div 5, d, a, b + 1)
        ELSE IF d % 2 = 0 THEN Norm(n, d \div 2, a - 1, b)
        ELSE IF d % 5 = 0 THEN Norm(n, d \div 5, a, b - 1)
        ELSE <<n, d, a, b>>

\* the number n / d, d > 0
Rat(n, d) == Norm(n, d, 0, 0)

RatMul(x, y) ==
    LET g1 == GCD(Abs(x[1]), y[2])
        g2 == GCD(Abs(y[1]), x[2])
    IN  IF x[1] = 0 \/ y[1] = 0 THEN <<0, 1, 0, 0>>
        ELSE Norm((x[1] \div g1) * (y[1] \div g2),
                  (x[2] \div g2) * (y[2] \div g1), x[3] + y[3], x[4] + y[4])

\* x / y for y # 0
RatDiv(x, y) ==
    IF y[1] > 0 THEN RatMul(x, <<y[2], y[1], 0 - y[3], 0 - y[4]>>)
    ELSE RatMul(x, <<0 - y[2], 0 - y[1], 0 - y[3], 0 - y[4]>>)

Zero == <<0, 1, 0, 0>>

Value(v) == [kind |-> "value", val |-> v]
None == [kind |-> "None", val |-> Zero]
Raise(e) == [kind |-> e, val |-> Zero]
IsError(r) == r.kind \notin {"value", "None"}

-----------------------------------------------------------------------------
(* calculate_speed and its converters *)

\* 0.621371 and 1.60934, in millionths and in hundred-thousandths
KmToMiMillionths == 621371
MiToKmHundredThousandths == 160934
SecondsPerMinute == 60
SecondsPerHour == 3600
MinutesPerHour == 60

KmToMi == Norm(KmToMiMillionths, 1, -6, -6)
MiToKm == Norm(MiToKmHundredThousandths, 1, -5, -5)

\* _convert_time: a matching pair converts, a supported time_unit with any
\* other output unit falls off the end (None), anything else raises
convert_time(time, time_unit, output_time_unit) ==
    IF time_unit = "seconds" THEN
        IF output_time_unit = "minutes" THEN Value(RatDiv(time, Rat(SecondsPerMinute, 1)))
        ELSE IF output_time_unit = "hours" THEN Value(RatDiv(time, Rat(SecondsPerHour, 1)))
        ELSE None
    ELSE IF time_unit = "minutes" THEN
        IF output_time_unit = "seconds" THEN Value(RatMul(time, Rat(SecondsPerMinute, 1)))
        ELSE IF output_time_unit = "hours" THEN Value(RatDiv(time, Rat(MinutesPerHour, 1)))
        ELSE None
    ELSE IF time_unit = "hours" THEN
        IF output_time_unit = "seconds" THEN Value(RatMul(time, Rat(SecondsPerHour, 1)))
        ELSE IF output_time_unit = "minutes" THEN Value(RatMul(time, Rat(MinutesPerHour, 1)))
        ELSE None
    ELSE Raise("ValueError")

\* a converter with the two factors exchanged
convert_distance_swapped(distance, distance_unit, output_distance_unit) ==
    IF distance_unit = "km" THEN
        IF output_distance_unit = "mi" THEN Value(RatMul(distance, MiToKm))
        ELSE IF output_distance_unit = "km" THEN Value(distance)
        ELSE Raise("ValueError")
    ELSE IF distance_unit = "mi" THEN
        IF output_distance_unit = "km" THEN Value(RatMul(distance, KmToMi))
        ELSE IF output_distance_unit = "mi" THEN Value(distance)
        ELSE Raise("ValueError")
    ELSE Raise("ValueError")

\* _convert_distance
convert_distance(distance, distance_unit, output_distance_unit) ==
    IF distance_unit = "km" THEN
        IF output_distance_unit = "mi" THEN Value(RatMul(distance, KmToMi))
        ELSE IF output_distance_unit = "km" THEN Value(distance)
        ELSE Raise("ValueError")
    ELSE IF distance_unit = "mi" THEN
        IF output_distance_unit = "km" THEN Value(RatMul(distance, MiToKm))
        ELSE IF output_distance_unit = "mi" THEN Value(distance)
        ELSE Raise("ValueError")
    ELSE Raise("ValueError")

\* a division that yields infinity for a zero divisor (IEEE behaviour)
true_divide_inf(distance, time) ==
    IF time.kind = "None" THEN Raise("TypeError")
    ELSE IF time.val = Zero THEN [kind |-> "inf", val |-> Zero]
    ELSE Value(RatDiv(distance.val, time.val))

\* distance / time: Python's division of a float by None is a TypeError and
\* by zero a ZeroDivisionError
true_divide(distance, time) ==
    IF time.kind = "None" THEN Raise("TypeError")
    ELSE IF time.val = Zero THEN Raise("ZeroDivisionError")
    ELSE Value(RatDiv(distance.val, time.val))

calculate_speed(distance, time, distance_unit, time_unit, output_distance_unit, output_time_unit) ==
    LET odu == IF output_distance_unit = "" THEN distance_unit
               ELSE output_distance_unit
        otu == IF output_time_unit = "" THEN time_unit ELSE output_time_unit
        d   == IF distance_unit # odu
               THEN convert_distance(distance, distance_unit, odu)
               ELSE Value(distance)
        t   == IF time_unit # otu
               THEN convert_time(time, time_unit, otu)
               ELSE Value(time)
    IN  IF IsError(d) THEN d
        ELSE IF IsError(t) THEN t
        ELSE true_divide(d, t)

DistanceUnits == {"km", "mi"}
TimeUnits == {"seconds", "minutes", "hours"}

-----------------------------------------------------------------------------
(* time_difference *)

\* A timestamp string 'YYYY-MM-DD HH:MM:SS +-HHMM' is the record of its fields;
\* sign is 1 or -1.
Timestamp(y, mo, d, h, mi, s, sg, oh, om) ==
    [year |-> y, month |-> mo, day |-> d, hour |-> h, minute |-> mi,
     second |-> s, sign |-> sg, offh |-> oh, offm |-> om]

IsLeap(y) == y % 4 = 0 /\ (y % 100 # 0 \/ y % 400 = 0)

DaysInMonth(y, m) ==
    IF m = 2 THEN (IF IsLeap(y) THEN 29 ELSE 28)
    ELSE IF m \in {4, 6, 9, 11} THEN 30 ELSE 31

RECURSIVE DaysBeforeMonth(_, _)
DaysBeforeMonth(y, m) ==
    IF m = 1 THEN 0 ELSE DaysBeforeMonth(y, m - 1) + DaysInMonth(y, m - 1)

DaysBeforeYear(y) ==
    (y - 1) * 365 + ((y - 1) \div 4) - ((y - 1) \div 100) + ((y - 1) \div 400)

\* datetime.toordinal()
ToOrdinal(ts) ==
    DaysBeforeYear(ts.year) + DaysBeforeMonth(ts.year, ts.month) + ts.day

\* what strptime(s, '%Y-%m-%d %H:%M:%S %z') accepts
WellFormed(ts) ==
    /\ ts.year \in 1..9999
    /\ ts.month \in 1..12
    /\ ts.day \in 1..DaysInMonth(ts.year, ts.month)
    /\ ts.hour \in 0..23
    /\ ts.minute \in 0..59
    /\ ts.second \in 0..59
    /\ ts.sign \in {1, -1}
    /\ ts.offh \in 0..23
    /\ ts.offm \in 0..59

SecondsOfDay(ts) == ts.hour * 3600 + ts.minute * 60 + ts.second

\* utcoffset() in seconds
UtcOffset(ts) == ts.sign * (ts.offh * 3600 + ts.offm * 60)

NaiveSeconds(d2, d1) ==
    (ToOrdinal(d2) - ToOrdinal(d1)) * 86400 + SecondsOfDay(d2) - SecondsOfDay(d1)

\* (d2 - d1).total_seconds() for two aware datetimes: the difference of the
\* wall clocks, corrected by the two offsets
TotalSeconds(d2, d1) == NaiveSeconds(d2, d1) + UtcOffset(d1) - UtcOffset(d2)

DivSeconds == 1
DivMinutes == 60
DivHours == 3600
DivDays == 86400
DivWeeks == 604800
DivYears == 31556926

\* the difference without abs()
signed_difference_in_seconds(d1, d2) == TotalSeconds(d2, d1)

absolute_difference_in_seconds(d1, d2) == Abs(TotalSeconds(d2, d1))

time_difference(d1, d2, unit) ==
    IF ~WellFormed(d1) \/ ~WellFormed(d2) THEN Raise("ValueError")
    ELSE LET secs == absolute_difference_in_seconds(d1, d2)
         IN  IF unit = "seconds" THEN Value(Rat(secs, DivSeconds))
             ELSE IF unit = "minutes" THEN Value(Rat(secs, DivMinutes))
             ELSE IF unit = "hours" THEN Value(Rat(secs, DivHours))
             ELSE IF unit = "days" THEN Value(Rat(secs, DivDays))
             ELSE IF unit = "weeks" THEN Value(Rat(secs, DivWeeks))
             ELSE IF unit = "years" THEN Value(Rat(secs, DivYears))
             ELSE Raise("ValueError")

DifferenceUnits == {"seconds", "minutes", "hours", "days", "weeks", "years"}

-----------------------------------------------------------------------------
(* Idle values of the variables a specification does not use *)

NoDoc == [n |-> 0]

ScanIdle ==
    /\ doc = NoDoc
    /\ filt = "none"
    /\ pos = 0
    /\ attrib = <<>>
    /\ children = <<>>
    /\ cleared = {}
    /\ results = <<>>
    /\ verdict = "none"

PlotIdle ==
    /\ idx = 0
    /\ tracker = {}
    /\ res_date = <<>>
    /\ res_speed = <<>>
    /\ sink = <<>>

-----------------------------------------------------------------------------
(* Calls of calculate_speed *)

\* the arguments of test_calculate_speed, 5.0 and .45, are among the numbers
Numbers ==
    {Rat(n, d) : n \in (0 - MaxNum)..MaxNum, d \in 1..MaxDen}
    \cup {Rat(5, 1), Rat(9, 20)}

GivenDistanceUnits == DistanceUnits \cup {"m"}
GivenTimeUnits == TimeUnits \cup {"days"}

InitSpeed ==
    /\ pc = "call"
    /\ \E d \in Numbers, t \in Numbers,
          du \in GivenDistanceUnits, tu \in GivenTimeUnits,
          odu \in GivenDistanceUnits \cup {""}, otu \in GivenTimeUnits \cup {""} :
          args = [fn |-> "calculate_speed", distance |-> d, time |-> t,
                  distance_unit |-> du, time_unit |-> tu,
                  output_distance_unit |-> odu, output_time_unit |-> otu]
    /\ ret = None
    /\ err = [kind |-> "none", at |-> 0, stage |-> "none"]
    /\ ScanIdle
    /\ PlotIdle

CallCalculateSpeed ==
    /\ pc = "call"
    /\ args.fn = "calculate_speed"
    /\ ret' = calculate_speed(args.distance, args.time, args.distance_unit,
                              args.time_unit, args.output_distance_unit,
                              args.output_time_unit)
    /\ pc' = "returned"
    /\ UNCHANGED <<args, err, scanVars, plotVars>>

SpecSpeed == InitSpeed /\ [][CallCalculateSpeed]_vars

-----------------------------------------------------------------------------
(* Calls of time_difference *)

Offsets == {<<-1, 5, 0>>, <<-1, 4, 0>>, <<1, 5, 30>>}

Timestamps ==
    {Timestamp(y, mo, d, 0, mi, s, o[1], o[2], o[3]) :
        y \in {1900, 1901}, mo \in {1, 13}, d \in {1, 2}, mi \in {0, 5},
        s \in 0..1, o \in Offsets}

GivenDifferenceUnits == DifferenceUnits \cup {"months"}

InitTime ==
    /\ pc = "call"
    /\ \E d1 \in Timestamps, d2 \in Timestamps, u \in GivenDifferenceUnits :
          args = [fn |-> "time_difference", d1 |-> d1, d2 |-> d2, unit |-> u]
    /\ ret = None
    /\ err = [kind |-> "none", at |-> 0, stage |-> "none"]
    /\ ScanIdle
    /\ PlotIdle

CallTimeDifference ==
    /\ pc = "call"
    /\ args.fn = "time_difference"
    /\ ret' = time_difference(args.d1, args.d2, args.unit)
    /\ pc' = "returned"
    /\ UNCHANGED <<args, err, scanVars, plotVars>>

SpecTime == InitTime /\ [][CallTimeDifference]_vars

-----------------------------------------------------------------------------
(* Elements and documents *)

\* An element's attributes: keys is the set of attribute names present, the
\* other fields hold their values (a default where the attribute is absent).
T0 == Timestamp(2021, 10, 1, 0, 0, 0, -1, 4, 0)

Attrs(keys, wat, dur, start, end, created, dist, unit) ==
    [keys |-> keys, workoutActivityType |-> wat, duration |-> dur,
     startDate |-> start, endDate |-> end, creationDate |-> created,
     totalDistance |-> dist, totalDistanceUnit |-> unit]

NoAttrs == Attrs({}, "", 0, T0, T0, T0, 0, "")

Running == "HKWorkoutActivityTypeRunning"
Walking == "HKWorkoutActivityTypeWalking"

\* rooted trees over 1..n with the elements numbered in the order of their
\* end events (children before their parent, subtrees contiguous); parent 0
\* marks the root
Trees(n) ==
    {p \in [1..n -> 0..n] :
        /\ p[n] = 0
        /\ \A i \in 1..(n - 1) :
              /\ p[i] > i
              /\ \A j \in (i + 1)..(p[i] - 1) : p[j] <= p[i]}

Document(n, p, a) == [n |-> n, parent |-> p, attrs |-> a]

ChildrenOf(d, e) == {c \in 1..d.n : d.parent[c] = e}

-----------------------------------------------------------------------------
(* The predicates *)

\* example_filter; its outcome is "True", "False", "None" (it fell off the
\* end) or the exception raised
example_filter(element) ==
    IF "workoutActivityType" \in element.keys /\ element.workoutActivityType = Running
    THEN IF "duration" \notin element.keys THEN "TypeError"
         ELSE IF element.duration = 0 THEN "None"
         ELSE IF element.duration >= 30 THEN "True" ELSE "False"
    ELSE "None"

\* plot_speed_by_run._filter_runs
filter_runs(element) ==
    IF "workoutActivityType" \in element.keys /\ element.workoutActivityType = Running
    THEN "True"
    ELSE "None"

ActivityOf(element) ==
    IF "workoutActivityType" \in element.keys THEN element.workoutActivityType
    ELSE "absent"

\* filt(element) for the callable handed to filter_elements: one of the two
\* predicates of the module, or a caller's boolean predicate on the activity
CallFilter(f, element) ==
    IF f.name = "example_filter" THEN example_filter(element)
    ELSE IF f.name = "_filter_runs" THEN filter_runs(element)
    ELSE IF ActivityOf(element) \in f.accepts THEN "True" ELSE "False"

IsException(v) == v \notin {"True", "False", "None"}

\* a test `filt(element) is not False`
TruthyUnlessFalse(v) == v # "False"

\* the truth value `if filt(element):` takes
Truthy(v) == v = "True"

-----------------------------------------------------------------------------
(* WatchData.filter_elements *)

NoErr == [kind |-> "none", at |-> 0, stage |-> "none"]

\* one iteration of `for _, element in tree`
Visit ==
    /\ pc = "scan"
    /\ pos <= doc.n
    /\ LET v == CallFilter(filt, attrib[pos])
       IN  /\ verdict' = v
           /\ IF IsException(v)
              THEN /\ pc' = "raised"
                   /\ err' = [kind |-> v, at |-> pos, stage |-> "filt"]
                   /\ UNCHANGED <<pos, attrib, children, cleared, results>>
              ELSE /\ pos' = pos + 1
                   /\ IF Truthy(v)
                      THEN /\ results' = Append(results, pos)
                           /\ UNCHANGED <<attrib, children, cleared>>
                      ELSE \* element.clear(): attributes and children go
                           /\ attrib' = [attrib EXCEPT ![pos] = NoAttrs]
                           /\ children' = [children EXCEPT ![pos] = {}]
                           /\ cleared' = cleared \cup {pos}
                           /\ UNCHANGED results
                   /\ UNCHANGED <<pc, err>>
    /\ UNCHANGED <<doc, filt, args, ret, plotVars>>

\* the parser is exhausted: return results
Return ==
    /\ pc = "scan"
    /\ pos > doc.n
    /\ IF args.fn = "plot_speed_by_run"
       THEN pc' = "loop" /\ idx' = 1
       ELSE pc' = "returned" /\ UNCHANGED idx
    /\ UNCHANGED <<args, ret, err, scanVars, tracker, res_date, res_speed, sink>>

ScanInit(d, f) ==
    /\ doc = d
    /\ filt = f
    /\ pos = 1
    /\ attrib = d.attrs
    /\ children = [e \in 1..d.n |-> ChildrenOf(d, e)]
    /\ cleared = {}
    /\ results = <<>>
    /\ verdict = "none"

FilterKinds ==
    { NoAttrs,
      Attrs({"workoutActivityType", "duration"}, Walking, 45, T0, T0, T0, 0, ""),
      Attrs({"workoutActivityType"}, Running, 0, T0, T0, T0, 0, ""),
      Attrs({"workoutActivityType", "duration"}, Running, 0, T0, T0, T0, 0, ""),
      Attrs({"workoutActivityType", "duration"}, Running, 10, T0, T0, T0, 0, ""),
      Attrs({"workoutActivityType", "duration"}, Running, 45, T0, T0, T0, 0, "") }

Filters ==
    {[name |-> "example_filter", accepts |-> {}],
     [name |-> "_filter_runs", accepts |-> {}]}
    \cup {[name |-> "caller", accepts |-> s] : s \in SUBSET {"absent", Running, Walking}}

InitFilter ==
    /\ pc = "scan"
    /\ args = [fn |-> "filter_elements"]
    /\ ret = None
    /\ err = NoErr
    /\ \E n \in 1..MaxElems :
          \E p \in Trees(n), a \in [1..n -> FilterKinds], f \in Filters :
              ScanInit(Document(n, p, a), f)
    /\ PlotIdle

NextFilter == Visit \/ Return

SpecFilter == InitFilter /\ [][NextFilter]_vars

-----------------------------------------------------------------------------
(* WatchData.plot_speed_by_run *)

\* strptime(creationDate, ...).date().strftime('%Y-%m-%d'): the calendar date
\* as written in the timestamp, in its own offset
DateKey(ts) == <<ts.year, ts.month, ts.day>>

NoKey == <<0, 0, 0>>

Outcome(kind, exc, stage, key, speed) ==
    [kind |-> kind, exc |-> exc, stage |-> stage, date_key |-> key, speed |-> speed]

\* The statements of the loop body after the date check took the branch:
\* the date is recorded and appended, then the speed is computed and appended
AppendRun(run, time_in_hours, date_key) ==
    IF "totalDistance" \notin run.keys
    THEN Outcome("raise_after_date", "KeyError", "totalDistance", date_key, Zero)
    ELSE IF "totalDistanceUnit" \notin run.keys
    THEN Outcome("raise_after_date", "KeyError", "totalDistanceUnit", date_key, Zero)
    ELSE LET speed == calculate_speed(Rat(run.totalDistance, 1), time_in_hours,
                                      run.totalDistanceUnit, "hours", "", "")
         IN  IF IsError(speed)
             THEN Outcome("raise_after_date", speed.kind, "calculate_speed", date_key, Zero)
             ELSE Outcome("append", "none", "none", date_key, speed.val)

\* a body that checks the date before it computes the elapsed time
process_run_date_first(run, seen) ==
    IF "creationDate" \notin run.keys
    THEN Outcome("raise", "KeyError", "creationDate", NoKey, Zero)
    ELSE IF ~WellFormed(run.creationDate)
    THEN Outcome("raise", "ValueError", "creationDate", NoKey, Zero)
    ELSE IF DateKey(run.creationDate) \in seen
    THEN Outcome("skip", "none", "none", DateKey(run.creationDate), Zero)
    ELSE IF "startDate" \notin run.keys \/ "endDate" \notin run.keys
    THEN Outcome("raise", "KeyError", "time_difference", NoKey, Zero)
    ELSE LET t == time_difference(run.startDate, run.endDate, "hours")
         IN  IF IsError(t)
             THEN Outcome("raise", t.kind, "time_difference", NoKey, Zero)
             ELSE AppendRun(run, t.val, DateKey(run.creationDate))

\* a body that never finds the date recorded
process_run_no_tracker(run, seen) ==
    IF "startDate" \notin run.keys \/ "endDate" \notin run.keys
    THEN Outcome("raise", "KeyError", "time_difference", NoKey, Zero)
    ELSE LET t == time_difference(run.startDate, run.endDate, "hours")
         IN  IF IsError(t)
             THEN Outcome("raise", t.kind, "time_difference", NoKey, Zero)
             ELSE IF "creationDate" \notin run.keys
             THEN Outcome("raise", "KeyError", "creationDate", NoKey, Zero)
             ELSE IF ~WellFormed(run.creationDate)
             THEN Outcome("raise", "ValueError", "creationDate", NoKey, Zero)
             ELSE AppendRun(run, t.val, DateKey(run.creationDate))

\* The body of `for run in runs`, for a run with attributes `run` when the
\* dates in `seen` are recorded: time_difference first, then the date key,
\* then the check of the tracker
process_run(run, seen) ==
    IF "startDate" \notin run.keys \/ "endDate" \notin run.keys
    THEN Outcome("raise", "KeyError", "time_difference", NoKey, Zero)
    ELSE LET t == time_difference(run.startDate, run.endDate, "hours")
         IN  IF IsError(t)
             THEN Outcome("raise", t.kind, "time_difference", NoKey, Zero)
             ELSE IF "creationDate" \notin run.keys
             THEN Outcome("raise", "KeyError", "creationDate", NoKey, Zero)
             ELSE IF ~WellFormed(run.creationDate)
             THEN Outcome("raise", "ValueError", "creationDate", NoKey, Zero)
             ELSE IF DateKey(run.creationDate) \in seen
             THEN Outcome("skip", "none", "none", DateKey(run.creationDate), Zero)
             ELSE AppendRun(run, t.val, DateKey(run.creationDate))

Raises(o) == o.kind \in {"raise", "raise_after_date"}

\* a loop that swallows the exception and goes on with the next run
skip_and_continue(o) == "loop"

\* an exception in the loop body is not caught: it leaves plot_speed_by_run
propagate(o) == IF Raises(o) THEN "raised" ELSE "loop"

\* one iteration of `for run in runs`
ProcessRun ==
    /\ pc = "loop"
    /\ idx <= Len(results)
    /\ LET o == process_run(attrib[results[idx]], tracker)
       IN  /\ pc' = propagate(o)
           /\ idx' = idx + 1
           /\ err' = IF Raises(o)
                     THEN [kind |-> o.exc, at |-> idx, stage |-> o.stage]
                     ELSE err
           /\ tracker' = IF o.kind \in {"append", "raise_after_date"}
                         THEN tracker \cup {o.date_key} ELSE tracker
           /\ res_date' = IF o.kind \in {"append", "raise_after_date"}
                          THEN Append(res_date, o.date_key) ELSE res_date
           /\ res_speed' = IF o.kind = "append"
                           THEN Append(res_speed, o.speed) ELSE res_speed
    /\ UNCHANGED <<args, ret, scanVars, sink>>

\* the loop is over: the frame is built and handed to the figure
Show ==
    /\ pc = "loop"
    /\ idx > Len(results)
    /\ sink' = Append(sink, [date |-> res_date, speed |-> res_speed])
    /\ pc' = "returned"
    /\ UNCHANGED <<args, ret, err, scanVars, idx, tracker, res_date, res_speed>>

DayA(h, mi) == Timestamp(2021, 10, 1, h, mi, 0, -1, 4, 0)
DayB(h, mi) == Timestamp(2021, 10, 2, h, mi, 0, -1, 4, 0)
BadStamp == Timestamp(2021, 13, 1, 7, 0, 0, -1, 4, 0)

WorkoutKeys ==
    {"workoutActivityType", "duration", "startDate", "endDate", "creationDate",
     "totalDistance", "totalDistanceUnit"}

Workout(start, end, created, dist, unit) ==
    Attrs(WorkoutKeys, Running, 60, start, end, created, dist, unit)

PlotKinds ==
    { NoAttrs,
      Workout(DayA(7, 0), DayA(8, 0), DayA(8, 0), 5, "km"),
      Workout(DayA(18, 0), DayA(18, 30), DayA(19, 0), 5, "km"),
      Workout(DayB(7, 0), DayB(8, 0), DayB(8, 0), 3, "mi"),
      Workout(BadStamp, DayA(21, 0), DayA(21, 0), 5, "km"),
      Workout(DayB(9, 0), DayB(9, 0), DayB(9, 0), 5, "km"),
      Attrs(WorkoutKeys \ {"totalDistance"}, Running, 60,
            DayA(10, 0), DayA(11, 0), DayA(11, 0), 0, "km"),
      Workout(DayB(12, 0), DayB(12, 20), DayB(13, 0), 5, "m"),
      Workout(DayB(14, 0), DayB(15, 0), BadStamp, 5, "km") }

InitPlot ==
    /\ pc = "scan"
    /\ args = [fn |-> "plot_speed_by_run"]
    /\ ret = None
    /\ err = NoErr
    /\ \E n \in 1..MaxElems :
          \E p \in Trees(n), a \in [1..n -> PlotKinds] :
              ScanInit(Document(n, p, a), [name |-> "_filter_runs", accepts |-> {}])
    /\ PlotIdle

NextPlot == Visit \/ Return \/ ProcessRun \/ Show

SpecPlot == InitPlot /\ [][NextPlot]_vars

-----------------------------------------------------------------------------
(* Properties of calculate_speed *)

OutDistanceUnit == IF args.output_distance_unit = "" THEN args.distance_unit
                   ELSE args.output_distance_unit
OutTimeUnit == IF args.output_time_unit = "" THEN args.time_unit
               ELSE args.output_time_unit

SpeedReturned == pc = "returned" /\ args.fn = "calculate_speed"

UnitsSupported ==
    /\ args.distance_unit \in DistanceUnits
    /\ OutDistanceUnit \in DistanceUnits
    /\ args.time_unit \in TimeUnits
    /\ OutTimeUnit \in TimeUnits

\* the factors the specification gives for each pair of supported units
DistanceFactor(from, to) ==
    IF from = to THEN Rat(1, 1)
    ELSE IF from = "km" THEN Norm(621371, 1, -6, -6)
    ELSE Norm(160934, 1, -5, -5)

SecondsIn(unit) ==
    IF unit = "seconds" THEN 1 ELSE IF unit = "minutes" THEN 60 ELSE 3600

TimeFactor(from, to) == Rat(SecondsIn(from), SecondsIn(to))

AnyUnitUnsupported ==
    \/ args.distance_unit \notin DistanceUnits
    \/ args.output_distance_unit \notin DistanceUnits \cup {""}
    \/ args.time_unit \notin TimeUnits
    \/ args.output_time_unit \notin TimeUnits \cup {""}

\* C5: whenever any unit given to calculate_speed is unsupported, the call
\* fails with ValueError: it returns no number and raises nothing else.
C5_UnsupportedUnitRaisesValueError ==
    (SpeedReturned /\ AnyUnitUnsupported) => ret.kind = "ValueError"

ConversionRaises ==
    \/ /\ args.distance_unit # OutDistanceUnit
       /\ (args.distance_unit \notin DistanceUnits \/ OutDistanceUnit \notin DistanceUnits)
    \/ /\ args.time_unit # OutTimeUnit
       /\ args.time_unit \notin TimeUnits

\* C10: with supported units, a converted time of zero makes calculate_speed
\* fail with a division-by-zero error, whatever the distance; it returns
\* neither infinity nor any other value; and an error of a unit conversion
\* is raised before the division is attempted.
C10_ZeroTimeRaisesZeroDivision ==
    SpeedReturned =>
        /\ (UnitsSupported
               /\ RatMul(args.time, TimeFactor(args.time_unit, OutTimeUnit)) = Zero)
              => ret.kind = "ZeroDivisionError"
        /\ (args.time = Zero /\ ConversionRaises) => ret.kind = "ValueError"
        /\ ret.kind # "inf"

\* a call with a time of 0 minutes to be converted to hours, and a distance to
\* be converted, has raised ZeroDivisionError
C10_Witness ==
    /\ SpeedReturned
    /\ args.time = Zero
    /\ args.distance # Zero
    /\ args.distance_unit = "mi"
    /\ OutDistanceUnit = "km"
    /\ args.time_unit = "minutes"
    /\ OutTimeUnit = "hours"
    /\ ret.kind = "ZeroDivisionError"

-----------------------------------------------------------------------------
(* Properties of time_difference *)

Epoch == Timestamp(1900, 1, 1, 0, 0, 0, 1, 0, 0)

\* the instant of a timestamp, in seconds of UTC since 1900-01-01 00:00:00
Instant(ts) ==
    (ToOrdinal(ts) - ToOrdinal(Epoch)) * 86400
        + ts.hour * 3600 + ts.minute * 60 + ts.second
        - ts.sign * (ts.offh * 3600 + ts.offm * 60)

Divisor(unit) ==
    IF unit = "seconds" THEN 1
    ELSE IF unit = "minutes" THEN 60
    ELSE IF unit = "hours" THEN 3600
    ELSE IF unit = "days" THEN 86400
    ELSE IF unit = "weeks" THEN 604800
    ELSE 31556926

TimeReturned == pc = "returned" /\ args.fn = "time_difference"

\* C4: for well-formed timestamps a, b and a unit among seconds, minutes,
\* hours, days, weeks, years, time_difference(a, b, unit) is the absolute
\* number of seconds between the two instants over the divisor of the unit;
\* it is never negative and equals time_difference(b, a, unit).
C4_TimeDifferenceAbsoluteAndSymmetric ==
    (TimeReturned /\ WellFormed(args.d1) /\ WellFormed(args.d2)
        /\ args.unit \in DifferenceUnits) =>
        /\ ret = Value(Rat(Abs(Instant(args.d2) - Instant(args.d1)), Divisor(args.unit)))
        /\ ret.val[1] >= 0
        /\ ret = time_difference(args.d2, args.d1, args.unit)

\* the later timestamp was given first, with another offset:
\* time_difference('1901-01-01 00:00:00 -0400', '1900-01-01 00:00:00 -0500')
\* has returned 8759 hours
C4_Witness ==
    /\ TimeReturned
    /\ args.d1 = Timestamp(1901, 1, 1, 0, 0, 0, -1, 4, 0)
    /\ args.d2 = Timestamp(1900, 1, 1, 0, 0, 0, -1, 5, 0)
    /\ args.unit = "hours"
    /\ ret = Value(Rat(8759, 1))

-----------------------------------------------------------------------------
(* Properties of filter_elements and of the predicates *)

FilterReturned == pc = "returned" /\ args.fn = "filter_elements"

Delivered == [i \in 1..doc.n |-> i]

Matches(e) == CallFilter(filt, doc.attrs[e]) = "True"

\* C1: filter_elements returns exactly the elements for which the predicate
\* is true, each once, in the order the parser delivered them: M elements
\* when M of the N match, and no element that does not match.
C1_FilterReturnsMatchesInOrder ==
    FilterReturned =>
        /\ results = SelectSeq(Delivered, Matches)
        /\ Len(results) = Cardinality({e \in 1..doc.n : Matches(e)})
        /\ \A i \in 1..Len(results) : Matches(results[i])
        /\ \A i, j \in 1..Len(results) : i < j => results[i] < results[j]

\* a scan of three elements has returned the first and the last and has
\* cleared the one between them, a child of the last
C1_Witness ==
    /\ FilterReturned
    /\ doc.n = 3
    /\ results = <<1, 3>>
    /\ cleared = {2}
    /\ doc.parent[1] = 3

\* C6: example_filter and _filter_runs are total: on every element they
\* return without raising, and return True or False, never None.
C6_PredicatesReturnBooleans ==
    filt.name \in {"example_filter", "_filter_runs"} =>
        verdict \in {"none", "True", "False"}

RECURSIVE IsUnder(_, _, _)
IsUnder(d, x, e) ==
    \/ x = e
    \/ d.parent[x] # 0 /\ IsUnder(d, d.parent[x], e)

Intact(x) == attrib[x] = doc.attrs[x] /\ children[x] = ChildrenOf(doc, x)

\* C7: after filter_elements completes, every returned element has all its
\* attributes and its whole subtree as parsed, none of it cleared, and no
\* returned element was cleared.
C7_RetainedSubtreesIntact ==
    FilterReturned =>
        \A i \in 1..Len(results) :
            /\ results[i] \notin cleared
            /\ \A x \in 1..doc.n : IsUnder(doc, x, results[i]) => Intact(x)

-----------------------------------------------------------------------------
(* Properties of plot_speed_by_run *)

Plotting == args.fn = "plot_speed_by_run"

KeyOfRun(i) == DateKey(doc.attrs[results[i]].creationDate)

FirstOfDate(i) == \A j \in 1..(i - 1) : KeyOfRun(j) # KeyOfRun(i)

\* the runs among the first n that are the first of their date, in order
FirstRuns(n) == SelectSeq([i \in 1..n |-> i], FirstOfDate)

SpeedOfRun(i) ==
    LET run == doc.attrs[results[i]]
    IN  calculate_speed(Rat(run.totalDistance, 1),
                        time_difference(run.startDate, run.endDate, "hours").val,
                        run.totalDistanceUnit, "hours", "", "").val

ExpectedDates(n) == [k \in 1..Len(FirstRuns(n)) |-> KeyOfRun(FirstRuns(n)[k])]
ExpectedSpeeds(n) == [k \in 1..Len(FirstRuns(n)) |-> SpeedOfRun(FirstRuns(n)[k])]

AtRun == Plotting /\ pc = "loop" /\ idx <= Len(results)

CurrentRun == attrib[results[idx]]

\* the run about to be processed is of a date that has a recorded entry
DuplicateDate ==
    /\ AtRun
    /\ "creationDate" \in CurrentRun.keys
    /\ WellFormed(CurrentRun.creationDate)
    /\ DateKey(CurrentRun.creationDate) \in tracker

TimeDifferenceFails(run) ==
    \/ "startDate" \notin run.keys
    \/ "endDate" \notin run.keys
    \/ ~WellFormed(run.startDate)
    \/ ~WellFormed(run.endDate)

\* C8, as claimed: a run of an already recorded date is skipped before
\* anything is computed for it: it changes neither the series nor the
\* outcome of the aggregation, whatever its startDate and endDate.
C8_DuplicateChangesNothing ==
    [][DuplicateDate =>
          /\ res_date' = res_date
          /\ res_speed' = res_speed
          /\ pc' # "raised"]_vars

\* C8, amended: time_difference is evaluated for every run before the date is
\* checked; a run of an already recorded date adds nothing to the series, and
\* the aggregation goes on to the next run unless the run's startDate or
\* endDate is missing or malformed, in which case it aborts.
C8_DuplicateSkippedAfterTimeDifference ==
    [][DuplicateDate =>
          /\ res_date' = res_date
          /\ res_speed' = res_speed
          /\ tracker' = tracker
          /\ TimeDifferenceFails(CurrentRun)
                => pc' = "raised" /\ err'.stage = "time_difference"
          /\ ~TimeDifferenceFails(CurrentRun)
                => pc' = "loop" /\ idx' = idx + 1 /\ err' = err]_vars

\* the aggregation has aborted in time_difference on a run whose date was
\* already recorded
C8_Witness ==
    /\ Plotting
    /\ pc = "raised"
    /\ err.stage = "time_difference"
    /\ err.at >= 2
    /\ WellFormed(doc.attrs[results[err.at]].creationDate)
    /\ KeyOfRun(err.at) \in tracker
    /\ Len(res_date) >= 1

\* what processing run i without error takes
RunOk(i) ==
    LET run == doc.attrs[results[i]]
    IN  /\ {"startDate", "endDate", "creationDate"} \subseteq run.keys
        /\ WellFormed(run.startDate)
        /\ WellFormed(run.endDate)
        /\ WellFormed(run.creationDate)
        /\ FirstOfDate(i) =>
              /\ {"totalDistance", "totalDistanceUnit"} \subseteq run.keys
              /\ TotalSeconds(run.endDate, run.startDate) # 0

====
